---- MODULE Spec2Model ----
(***************************************************************************)
(* AdbBridgeCoordinator (custom_components/adb_bridge/coordinator.py).     *)
(*                                                                         *)
(* Callers are coroutines on the event loop; the bodies _connect,          *)
(* _disconnect, _get_data, _enable, _run, _install run as executor jobs on *)
(* a thread pool.  Jobs of lock-holding operations never overlap each      *)
(* other, but _disconnect takes no lock and overlaps all of them, so each  *)
(* read of self._device and each device call is one step.                  *)
(*                                                                         *)
(* The adb_shell device objects are the environment: an object is "new"    *)
(* once constructed, "open" after connect() returned, "closed" after       *)
(* close(); .available is true exactly for "open".  A command on an open   *)
(* object succeeds unless its link has died (stale).                       *)
(***************************************************************************)
EXTENDS Integers, Sequences, FiniteSets, TLC

\* ------------------------------------------------------------- bounds
MaxSessions == 2

\* Two concurrent callers.  "user" calls the operations that take the lock,
\* "other" competes for the lock with a Refresh or calls Disconnect.
Procs == {"user", "other"}
Sessions == 1..MaxSessions

\* ------------------------------------------------------------- constants
DEFAULT_ADB_PORT == 5555
None == 0
NoIp == "None"
CfgSerial == "CFG123"
DevSerial == "ABC123"
IPs == {"192.168.1.50", "10.0.0.5"}
Ports == {5555, 5556}
Transports == {"usb", "wifi"}
Ops ==
  {"Refresh", "Enable", "Run", "Install", "Disconnect", "Reconnect", "EnablePress"}
LockedOps == {"Refresh", "Enable", "Run", "Install"}
OpsOf(p) == IF p = "user" THEN LockedOps ELSE {"Refresh", "Disconnect"}
\* both buttons and the service calls next to the scheduler's polling
LockOpsOf(p) ==
  IF p = "user" THEN {"EnablePress", "Reconnect", "Run", "Install"} ELSE {"Refresh"}
\* the Reconnect button next to the scheduler's polling and an unload
PressOpsOf(p) ==
  IF p = "user" THEN {"Reconnect"} ELSE {"Refresh", "Disconnect"}

VARIABLES
  device,          \* self._device: None or the id of a device object
  status,          \* per device object: "free" | "new" | "open" | "closed"
  stale,           \* open objects whose link is dead
  reachable,       \* whether connect() would succeed now
  signer,          \* self._signer is set
  lock,            \* self._lock: holder or "none"
  disconnected,    \* a Disconnect has completed and no device was built since
  last_wifi_ip,    \* self._last_wifi_ip
  last_wifi_port,  \* self._last_wifi_port
  connection_type, \* self.connection_type
  tcp_port,        \* the device's service.adb.tcp.port / persist.adb.tcp.port
  pc, op,          \* per caller: position and running operation
  arg,             \* per caller: port argument of async_enable_wifi_adb
  data,            \* per caller: the dict built by Refresh
  ip,              \* per caller: local ip of _enable
  result,          \* per caller: local result of _install
  ret,             \* per caller: returned value
  outcome,         \* per caller: "pending" | "returned" | "UpdateFailed" | "raised"
  trace,           \* per caller: device calls made by the running operation
  hist             \* per caller: observations of the running operation

vars == <<device, status, stale, reachable, signer, lock, disconnected,
          last_wifi_ip, last_wifi_port, connection_type, tcp_port, pc, op, arg, data,
          ip, result, ret, outcome, trace, hist>>

coord ==
  <<device, status, stale, signer, disconnected, last_wifi_ip, last_wifi_port>>
env == <<reachable, connection_type, tcp_port>>
locals == <<arg, data, ip, result, ret, outcome, trace, hist>>

\* ------------------------------------------------------------- helpers
Data0 ==
  [connected |-> FALSE, serial |-> "None", wifi_ip |-> NoIp,
   wifi_adb_enabled |-> FALSE, adb_port |-> 5555]

\* observations of one call: the session found at the first check (-1 before
\* it), the session probed (for a press of Reconnect: the session the button
\* found), whether connect() would have succeeded when the
\* probe failed, the cached endpoint when the lock was taken, and whether the
\* first check came right after a completed Disconnect, and the endpoint the
\* connect test was run against
Hist0 ==
  [sess0 |-> -1, sess |-> None, up |-> FALSE, ip0 |-> NoIp, port0 |-> 0,
   afterDisc |-> FALSE, sockIp |-> NoIp, sockPort |-> 0]

\* device.available
Available(d) == d # None /\ status[d] = "open"

\* device.shell(...) / device.push(...) / device._service(...) returns
ShellOk(d) == Available(d) /\ d \notin stale

\* An object nobody references any more is reclaimed unless it is still open.
Reclaim(st, dev) ==
  [s \in Sessions |->
     IF s # dev /\ st[s] \in {"new", "closed"} THEN "free" ELSE st[s]]

FreeIds == {s \in Sessions : status[s] = "free"}
NewId == CHOOSE s \in FreeIds : \A t \in FreeIds : s <= t

OpenSessions == {s \in Sessions : status[s] = "open"}

\* A finished call hands its result to its caller before anything else moves.
NoDone == \A q \in Procs : pc[q] # "done"

\* caller p is at label l
At(p, l) == pc[p] = l /\ NoDone

Log(p, evs) == trace' = [trace EXCEPT ![p] = @ \o evs]

\* the operation goes on at label l
Step(p, l) ==
  /\ pc' = [pc EXCEPT ![p] = l]
  /\ UNCHANGED <<outcome, ret, lock>>

\* mutant: the operation ends without releasing the lock
Ret_M(p, how, val) ==
  /\ pc' = [pc EXCEPT ![p] = "done"]
  /\ outcome' = [outcome EXCEPT ![p] = how]
  /\ ret' = [ret EXCEPT ![p] = val]
  /\ UNCHANGED lock

\* the operation ends; "async with self._lock" releases the lock on the way out
Ret(p, how, val) ==
  /\ pc' = [pc EXCEPT ![p] = "done"]
  /\ outcome' = [outcome EXCEPT ![p] = how]
  /\ ret' = [ret EXCEPT ![p] = val]
  /\ lock' = IF lock = p THEN "none" ELSE lock

\* control leaves the "async with" block for label l of the caller
Leave(p, l) ==
  /\ pc' = [pc EXCEPT ![p] = l]
  /\ lock' = IF lock = p THEN "none" ELSE lock
  /\ UNCHANGED <<outcome, ret>>

\* self._device = d
SetDevice(d) ==
  /\ device' = d
  /\ status' = Reclaim(status, d)
  /\ stale' = stale \cap {d}

\* mutant: close() leaves the connection of the device open
CloseDevice_M == UNCHANGED <<device, status, stale>>

\* self._device.close()
CloseDevice ==
  /\ status' = [status EXCEPT ![device] = "closed"]
  /\ stale' = stale \ {device}
  /\ UNCHANGED device

\* ------------------------------------------------------------- initial state
Init ==
  /\ device = None
  /\ status = [s \in Sessions |-> "free"]
  /\ stale = {}
  /\ reachable \in BOOLEAN
  /\ signer = FALSE
  /\ lock = "none"
  /\ disconnected = FALSE
  /\ last_wifi_ip = NoIp
  /\ last_wifi_port = DEFAULT_ADB_PORT
  /\ connection_type \in Transports
  /\ tcp_port = DEFAULT_ADB_PORT
  /\ pc = [p \in Procs |-> "idle"]
  /\ op = [p \in Procs |-> "none"]
  /\ arg = [p \in Procs |-> 0]
  /\ data = [p \in Procs |-> Data0]
  /\ ip = [p \in Procs |-> NoIp]
  /\ result = [p \in Procs |-> "None"]
  /\ ret = [p \in Procs |-> "None"]
  /\ outcome = [p \in Procs |-> "pending"]
  /\ trace = [p \in Procs |-> <<>>]
  /\ hist = [p \in Procs |-> Hist0]

\* ------------------------------------------------------------- environment
DeviceDown ==
  /\ NoDone
  /\ reachable
  /\ reachable' = FALSE
  /\ UNCHANGED <<coord, lock, connection_type, tcp_port, pc, op, locals>>

DeviceUp ==
  /\ NoDone
  /\ ~reachable
  /\ reachable' = TRUE
  /\ UNCHANGED <<coord, lock, connection_type, tcp_port, pc, op, locals>>

\* the link of the held session dies (cable, daemon restart, TCP reset)
LinkDrop ==
  /\ NoDone
  /\ ShellOk(device)
  /\ stale' = stale \cup {device}
  /\ UNCHANGED <<device, status, signer, disconnected, last_wifi_ip, last_wifi_port, env,
                 lock, pc, op, locals>>

\* ------------------------------------------------------------- callers
\* a caller invokes one of the public operations
Start(p, o, port) ==
  /\ At(p, "idle")
  /\ pc' = [pc EXCEPT ![p] = CASE o = "Disconnect" -> "d_chk"
                                [] o = "Reconnect" -> "b_chk"
                                [] OTHER -> "lock"]
  /\ op' = [op EXCEPT ![p] = o]
  /\ arg' = [arg EXCEPT ![p] = port]
  /\ UNCHANGED <<coord, env, lock, data, ip, result, ret, outcome, trace, hist>>

\* the caller takes the result; its frame is gone
Return(p) ==
  /\ pc[p] = "done"
  /\ pc' = [pc EXCEPT ![p] = "idle"]
  /\ op' = [op EXCEPT ![p] = "none"]
  /\ arg' = [arg EXCEPT ![p] = 0]
  /\ data' = [data EXCEPT ![p] = Data0]
  /\ ip' = [ip EXCEPT ![p] = NoIp]
  /\ result' = [result EXCEPT ![p] = "None"]
  /\ ret' = [ret EXCEPT ![p] = "None"]
  /\ outcome' = [outcome EXCEPT ![p] = "pending"]
  /\ trace' = [trace EXCEPT ![p] = <<>>]
  /\ hist' = [hist EXCEPT ![p] = Hist0]
  /\ UNCHANGED <<coord, env, lock>>

\* async with self._lock
Acquire(p) ==
  /\ At(p, "lock")
  /\ lock = "none"
  /\ lock' = p
  /\ pc' = [pc EXCEPT ![p] = IF op[p] = "Refresh" THEN "r_chk" ELSE "e_chk1"]
  /\ hist' = [hist EXCEPT ![p].ip0 = last_wifi_ip, ![p].port0 = last_wifi_port]
  /\ UNCHANGED <<coord, env, op, arg, data, ip, result, ret, outcome, trace>>

\* ------------------------------------------------------------- async_disconnect
\* async_disconnect returns: to its caller, or into ReconnectButton.async_press
DiscEnd(p) ==
  IF op[p] = "Reconnect" THEN Step(p, "b_refresh") ELSE Ret(p, "returned", "None")

\* if self._device:
DiscChk(p) ==
  /\ At(p, "d_chk")
  /\ IF device # None
       THEN Step(p, "d_close") /\ UNCHANGED disconnected
       ELSE DiscEnd(p) /\ disconnected' = TRUE
  /\ hist' = [hist EXCEPT ![p].sess0 = device, ![p].afterDisc = disconnected]
  /\ UNCHANGED <<device, status, stale, signer, last_wifi_ip, last_wifi_port,
                 env, op, arg, data, ip, result, trace>>

\* try: self._device.close()  except Exception: pass
DiscClose(p) ==
  /\ At(p, "d_close")
  /\ IF device # None
       THEN /\ CloseDevice
            /\ Log(p, IF device \in stale THEN <<"close", "err">> ELSE <<"close">>)
       ELSE UNCHANGED <<device, status, stale, trace>>
  /\ Step(p, "d_none")
  /\ UNCHANGED <<signer, disconnected, last_wifi_ip, last_wifi_port, env, op,
                 arg, data, ip, result, hist>>

\* mutant: _disconnect closes the device but keeps holding it
DisconnectedDevice_M(d) == d

\* the value _disconnect leaves in self._device
DisconnectedDevice(d) == None

\* self._device = None
DiscNone(p) ==
  /\ At(p, "d_none")
  /\ SetDevice(DisconnectedDevice(device))
  /\ disconnected' = TRUE
  /\ DiscEnd(p)
  /\ UNCHANGED <<signer, last_wifi_ip, last_wifi_port, env, op, arg, data, ip,
                 result, trace, hist>>

\* ------------------------------------------------------------- _async_connect
\* mutant: _enable issues the tcpip service call before capturing the address
EnableFirstStep_M == "en_tcpip"

\* the first device call of _enable
EnableFirstStep == "en_wlan"

\* mutant: the button disconnects whatever the test command answered
PressAfterRun_M(p, out) == Leave(p, "d_chk")

\* ReconnectButton.async_press after async_run_command returned out
PressAfterRun(p, out) == Ret(p, "returned", "None")

\* where an operation goes on once it holds a connected device
BodyStart(o) ==
  CASE o = "Refresh" -> "g_chk1"
    [] o \in {"Enable", "EnablePress"} -> EnableFirstStep
    [] o \in {"Run", "Reconnect"} -> "run_sh"
    [] o = "Install" -> "in_push"

\* _async_connect returned b to the operation that awaited it
AfterConnect(p, b, evs) ==
  /\ Log(p, evs \o <<IF b THEN "conn_true" ELSE "conn_false">>)
  /\ IF b THEN Step(p, BodyStart(op[p]))
     ELSE IF op[p] = "Refresh" THEN Step(p, "w_probe")
     ELSE IF op[p] = "Reconnect" THEN PressAfterRun(p, "None")
     ELSE Ret(p, "returned", IF op[p] = "Install" THEN "False" ELSE "None")

\* mutant: _async_connect provisions the key on every call
SignerMissing_M(sg) == TRUE

\* self._signer is None
SignerMissing(sg) == ~sg

\* if self._signer is None: await self._async_setup()
ConnectEnter(p) ==
  /\ At(p, "a_enter")
  /\ Step(p, IF SignerMissing(signer) THEN "a_setup" ELSE "c_chk1")
  /\ UNCHANGED <<coord, env, op, locals>>

\* _setup: load or generate the key pair, build the signer
Setup(p) ==
  /\ At(p, "a_setup")
  /\ signer' = TRUE
  /\ Step(p, "c_chk1")
  /\ UNCHANGED <<device, status, stale, disconnected, last_wifi_ip, last_wifi_port, env, op,
                 arg, data, ip, result, trace, hist>>

\* if self._device ...            (first operand of line 82)
ConnChk1(p) ==
  /\ At(p, "c_chk1")
  /\ Step(p, IF device = None THEN "c_new" ELSE "c_chk2")
  /\ UNCHANGED <<coord, env, op, arg, data, ip, result, trace, hist>>

\* ... and self._device.available: probe, and close a stale device
ConnChk2(p) ==
  /\ At(p, "c_chk2")
  /\ IF device = None
       THEN \* AttributeError: except Exception -> self._device = None; return False
            /\ AfterConnect(p, FALSE, <<>>)
            /\ UNCHANGED <<device, status, stale>>
       ELSE IF Available(device)
         THEN IF ShellOk(device)
                THEN /\ AfterConnect(p, TRUE, <<"probe_ok">>)
                     /\ UNCHANGED <<device, status, stale>>
                ELSE /\ device' = None
                     /\ status' = Reclaim([status EXCEPT ![device] = "closed"], None)
                     /\ stale' = {}
                     /\ Log(p, <<"probe_fail", "close">>)
                     /\ Step(p, "c_new")
         ELSE /\ Step(p, "c_new")
              /\ UNCHANGED <<device, status, stale, trace>>
  /\ UNCHANGED <<signer, disconnected, last_wifi_ip, last_wifi_port, env, op,
                 arg, data, ip, result, hist>>

\* self._device = AdbDeviceUsb(...) / AdbDeviceTcp(...)
ConnNew(p) ==
  /\ At(p, "c_new")
  /\ FreeIds # {}
  /\ device' = NewId
  /\ status' = [Reclaim(status, NewId) EXCEPT ![NewId] = "new"]
  /\ stale' = {}
  /\ disconnected' = FALSE
  /\ Log(p, <<"new">>)
  /\ Step(p, "c_conn")
  /\ UNCHANGED <<signer, last_wifi_ip, last_wifi_port, env, op, arg, data, ip,
                 result, hist>>

\* self._device.connect(rsa_keys=[self._signer], auth_timeout_s=30)
ConnConnect(p) ==
  /\ At(p, "c_conn")
  /\ IF device = None
       THEN /\ AfterConnect(p, FALSE, <<"connect_err">>)
            /\ UNCHANGED <<device, status, stale>>
       ELSE IF reachable
         THEN /\ status' = [status EXCEPT ![device] = "open"]
              /\ UNCHANGED <<device, stale>>
              /\ Log(p, <<"connect_ok">>)
              /\ Step(p, "c_ret")
         ELSE \* except Exception -> self._device = None; return False
              /\ SetDevice(None)
              /\ AfterConnect(p, FALSE, <<"connect_fail">>)
  /\ UNCHANGED <<signer, disconnected, last_wifi_ip, last_wifi_port, env, op,
                 arg, data, ip, result, hist>>

\* return self._device.available
ConnRet(p) ==
  /\ At(p, "c_ret")
  /\ AfterConnect(p, Available(device), <<>>)
  /\ UNCHANGED <<coord, env, op, arg, data, ip, result, hist>>

\* ------------------------------------------------------------- _async_update_data
\* mutant: a Refresh that finds no device does not connect
UpdateNeedsConnect_M(d) == FALSE

\* if self._device is None: connect first
UpdateNeedsConnect(d) == d = None

UpdateCheck(p) ==
  /\ At(p, "r_chk")
  /\ Step(p, IF UpdateNeedsConnect(device) THEN "a_enter" ELSE "g_chk1")
  /\ hist' = [hist EXCEPT ![p].sess0 = device, ![p].afterDisc = disconnected]
  /\ UNCHANGED <<coord, env, op, arg, data, ip, result, trace>>

\* mutant: the degraded snapshot reports the default port, not the cached one
CacheData_M(cip, cport, ok) ==
  [connected |-> FALSE, serial |-> "None", wifi_ip |-> cip,
   wifi_adb_enabled |-> IF cip = NoIp \/ cport = 0 THEN FALSE ELSE ok,
   adb_port |-> DEFAULT_ADB_PORT]

\* the dict _wifi_probe_from_cache returns; ok is the outcome of connect_ex
CacheData(cip, cport, ok) ==
  [connected |-> FALSE, serial |-> "None", wifi_ip |-> cip,
   wifi_adb_enabled |-> IF cip = NoIp \/ cport = 0 THEN FALSE ELSE ok,
   adb_port |-> cport]

\* mutant: the degraded snapshot trusts the cached endpoint without testing it
WifiProbeFromCache_M(p) ==
  /\ At(p, "w_probe")
  /\ data' = [data EXCEPT ![p] = CacheData(last_wifi_ip, last_wifi_port, TRUE)]
  /\ Ret(p, "returned", "snapshot")
  /\ UNCHANGED <<coord, env, op, arg, ip, result, trace, hist>>

\* _wifi_probe_from_cache, after _async_connect returned False
WifiProbeFromCache(p) ==
  /\ At(p, "w_probe")
  /\ IF last_wifi_ip = NoIp \/ last_wifi_port = 0
       THEN /\ data' = [data EXCEPT ![p] = CacheData(last_wifi_ip, last_wifi_port, FALSE)]
            /\ UNCHANGED <<trace, hist>>
       ELSE \E ok \in BOOLEAN :
            /\ data' = [data EXCEPT ![p] = CacheData(last_wifi_ip, last_wifi_port, ok)]
            /\ Log(p, <<IF ok THEN "sock_ok" ELSE "sock_fail">>)
            /\ hist' = [hist EXCEPT ![p].sockIp = last_wifi_ip,
                                     ![p].sockPort = last_wifi_port]
  /\ Ret(p, "returned", "snapshot")
  /\ UNCHANGED <<coord, env, op, arg, ip, result>>

\* if not self._device ...        (first operand of line 184)
GetDataChk1(p) ==
  /\ At(p, "g_chk1")
  /\ IF device = None THEN Ret(p, "returned", "snapshot") ELSE Step(p, "g_chk2")
  /\ UNCHANGED <<coord, env, op, arg, data, ip, result, trace, hist>>

\* ... or not self._device.available
GetDataChk2(p) ==
  /\ At(p, "g_chk2")
  /\ IF device = None
       THEN \* AttributeError: self._device = None; raise -> UpdateFailed
            Ret(p, "UpdateFailed", "None")
       ELSE IF Available(device) THEN Step(p, "g_probe")
            ELSE Ret(p, "returned", "snapshot")
  /\ UNCHANGED <<coord, env, op, arg, data, ip, result, trace, hist>>

\* mutant: the quick test drops the device whatever its outcome
AfterProbeDevice_M(d, ok) == None

\* self._device after the quick test "echo test"
AfterProbeDevice(d, ok) == IF ok THEN d ELSE None

\* try: self._device.shell("echo test")  except: self._device = None; return data
GetDataProbe(p) ==
  /\ At(p, "g_probe")
  /\ LET ok == ShellOk(device) IN
     /\ SetDevice(AfterProbeDevice(device, ok))
     /\ hist' = [hist EXCEPT ![p].sess = device, ![p].up = reachable]
     /\ IF ok
          THEN /\ data' = [data EXCEPT ![p].connected = TRUE]
               /\ Log(p, <<"probe_ok">>)
               /\ Step(p, "g_serial")
          ELSE /\ UNCHANGED data
               /\ Log(p, IF device = None THEN <<>> ELSE <<"probe_fail">>)
               /\ Ret(p, "returned", "snapshot")
  /\ UNCHANGED <<signer, disconnected, last_wifi_ip, last_wifi_port, env, op, arg, ip, result>>

\* result.strip() if result else self.device_serial
SerialValue(r) == IF r # "" THEN r ELSE CfgSerial

\* mutant: a failed serial read aborts the refresh and drops the device
GetSerial_M(p) ==
  /\ At(p, "g_serial")
  /\ IF ShellOk(device)
       THEN /\ \E r \in {"", DevSerial} :
                 data' = [data EXCEPT ![p].serial = SerialValue(r)]
            /\ Log(p, <<"serial">>)
            /\ Step(p, "g_wlan")
            /\ UNCHANGED <<device, status, stale>>
       ELSE /\ UNCHANGED data
            /\ Log(p, <<"serial", "err">>)
            /\ SetDevice(None)
            /\ Ret(p, "UpdateFailed", "None")
  /\ UNCHANGED <<signer, disconnected, last_wifi_ip, last_wifi_port, env, op, arg,
                 ip, result, hist>>

\* data["serial"] from getprop ro.serialno
GetSerial(p) ==
  /\ At(p, "g_serial")
  /\ IF ShellOk(device)
       THEN /\ \E r \in {"", DevSerial} :
                 data' = [data EXCEPT ![p].serial = SerialValue(r)]
            /\ Log(p, <<"serial">>)
       ELSE /\ data' = [data EXCEPT ![p].serial = CfgSerial]
            /\ Log(p, <<"serial", "err">>)
  /\ Step(p, "g_wlan")
  /\ UNCHANGED <<coord, env, op, arg, ip, result, hist>>

\* mutant: an empty lookup clears the cached address
GetIp_M(p, here, iface, next) ==
  /\ At(p, here)
  /\ Log(p, IF ShellOk(device) THEN <<iface>> ELSE <<iface, "err">>)
  /\ IF ShellOk(device)
       THEN \E r \in IPs \cup {""} :
              IF r # ""
                THEN /\ data' = [data EXCEPT ![p].wifi_ip = r]
                     /\ last_wifi_ip' = r
                     /\ Step(p, "g_port")
                ELSE /\ UNCHANGED data
                     /\ last_wifi_ip' = NoIp
                     /\ Step(p, next)
       ELSE /\ UNCHANGED <<data, last_wifi_ip>>
            /\ Step(p, "g_port")
  /\ UNCHANGED <<device, status, stale, signer, disconnected, last_wifi_port,
                 env, op, arg, ip, result, hist>>

\* the address lookup on one interface, in _get_data
GetIp(p, here, iface, next) ==
  /\ At(p, here)
  /\ Log(p, IF ShellOk(device) THEN <<iface>> ELSE <<iface, "err">>)
  /\ IF ShellOk(device)
       THEN \E r \in IPs \cup {""} :
              IF r # ""
                THEN /\ data' = [data EXCEPT ![p].wifi_ip = r]
                     /\ last_wifi_ip' = r
                     /\ Step(p, "g_port")
                ELSE /\ UNCHANGED <<data, last_wifi_ip>>
                     /\ Step(p, next)
       ELSE /\ UNCHANGED <<data, last_wifi_ip>>
            /\ Step(p, "g_port")
  /\ UNCHANGED <<device, status, stale, signer, disconnected, last_wifi_port, env, op, arg,
                 ip, result, hist>>

GetWlan(p) == GetIp(p, "g_wlan", "wlan0", "g_eth")

GetEth(p) == GetIp(p, "g_eth", "eth0", "g_port")

\* mutant: the connected snapshot always reports the default port
PortToCheck_M(cport) == 5555

\* port_to_check = self._last_wifi_port or 5555
PortToCheck(cport) == IF cport # 0 THEN cport ELSE 5555

\* the socket check of (wifi_ip, port_to_check); return data
GetPort(p) ==
  /\ At(p, "g_port")
  /\ IF data[p].wifi_ip # NoIp
       THEN \E ok \in BOOLEAN :
            /\ data' = [data EXCEPT ![p].adb_port = PortToCheck(last_wifi_port),
                                    ![p].wifi_adb_enabled = ok]
            /\ Log(p, <<IF ok THEN "sock_ok" ELSE "sock_fail">>)
            /\ hist' = [hist EXCEPT ![p].sockIp = data[p].wifi_ip,
                                     ![p].sockPort = PortToCheck(last_wifi_port)]
       ELSE /\ data' = [data EXCEPT ![p].adb_port = PortToCheck(last_wifi_port)]
            /\ UNCHANGED <<trace, hist>>
  /\ Ret(p, "returned", "snapshot")
  /\ UNCHANGED <<coord, env, op, arg, ip, result>>

\* ------------------------------------------------------------- operations on the device
\* if self._device is None ...    (first operand of lines 259, 315, 331)
OpChk1(p) ==
  /\ At(p, "e_chk1")
  /\ Step(p, IF device = None THEN "a_enter" ELSE "e_chk2")
  /\ hist' = [hist EXCEPT ![p].sess0 = device]
  /\ UNCHANGED <<coord, env, op, arg, data, ip, result, trace>>

\* ... or not self._device.available
OpChk2(p) ==
  /\ At(p, "e_chk2")
  /\ IF device = None
       THEN \* AttributeError, outside every try block; the button catches it
            IF op[p] = "Reconnect" THEN Leave(p, "d_chk")
            ELSE Ret(p, "raised", "None")
       ELSE Step(p, IF Available(device) THEN BodyStart(op[p]) ELSE "a_enter")
  /\ UNCHANGED <<coord, env, op, arg, data, ip, result, trace, hist>>

\* the address lookup on one interface, in _enable
EnableIp(p, here, iface, next) ==
  /\ At(p, here)
  /\ Log(p, <<iface>>)
  /\ IF ShellOk(device)
       THEN \E r \in IPs \cup {""} :
              IF r # ""
                THEN /\ ip' = [ip EXCEPT ![p] = r]
                     /\ Step(p, "en_tcpip")
                ELSE /\ UNCHANGED ip
                     /\ Step(p, next)
       ELSE /\ UNCHANGED ip
            /\ Step(p, "en_tcpip")
  /\ UNCHANGED <<coord, env, op, arg, data, result, hist>>

EnableWlan(p) == EnableIp(p, "en_wlan", "wlan0", "en_eth")

EnableEth(p) == EnableIp(p, "en_eth", "eth0", "en_tcpip")

\* mutant: a failed tcpip service call is not followed by the shell fallback
AfterTcpip_M(ok) == "en_cache"

\* where _enable goes after the tcpip service call
AfterTcpip(ok) == IF ok THEN "en_cache" ELSE "en_fb"

\* self._device._service(b'tcpip', port)
EnableTcpip(p) ==
  /\ At(p, "en_tcpip")
  /\ \E ok \in BOOLEAN :
       /\ ok => ShellOk(device)
       /\ Log(p, <<IF ok THEN "tcpip_ok" ELSE "tcpip_fail">>)
       /\ tcp_port' = IF ok THEN arg[p] ELSE tcp_port
       /\ Step(p, AfterTcpip(ok))
  /\ UNCHANGED <<coord, reachable, connection_type, op, arg, data, ip, result, hist>>

\* self._device.shell("setprop ...; stop adbd; start adbd"), outcome ignored
EnableFallback(p) ==
  /\ At(p, "en_fb")
  /\ Log(p, IF ShellOk(device) THEN <<"shellfb">> ELSE <<"shellfb", "err">>)
  /\ tcp_port' = IF ShellOk(device) THEN arg[p] ELSE tcp_port
  /\ Step(p, "en_cache")
  /\ UNCHANGED <<coord, reachable, connection_type, op, arg, data, ip, result, hist>>

\* mutant: _enable never caches the captured address
CapturedIp_M(ipv) == FALSE

\* if ip:
CapturedIp(ipv) == ipv # NoIp

\* async_enable_wifi_adb returns ipv: to its caller, or into
\* EnableWifiAdbButton.async_press, which requests a refresh "if ip"
EnableEnd(p, ipv) ==
  IF op[p] = "EnablePress"
    THEN IF ipv # NoIp THEN Leave(p, "b_refresh") ELSE Ret(p, "returned", "None")
    ELSE Ret(p, "returned", ipv)

\* if ip: cache (ip, port); return ip
EnableCache(p) ==
  /\ At(p, "en_cache")
  /\ IF CapturedIp(ip[p])
       THEN /\ last_wifi_ip' = ip[p]
            /\ last_wifi_port' = arg[p]
       ELSE UNCHANGED <<last_wifi_ip, last_wifi_port>>
  /\ EnableEnd(p, ip[p])
  /\ UNCHANGED <<device, status, stale, signer, disconnected, env, op, arg, data, ip, result,
                 trace, hist>>

\* _run: return self._device.shell(command), None on any exception
RunShell(p) ==
  /\ At(p, "run_sh")
  /\ Log(p, IF ShellOk(device) THEN <<"run">> ELSE <<"run", "err">>)
  /\ LET out == IF ShellOk(device) THEN "out" ELSE "None" IN
       IF op[p] = "Reconnect" THEN PressAfterRun(p, out)
       ELSE Ret(p, "returned", out)
  /\ UNCHANGED <<coord, env, op, arg, data, ip, result, hist>>

\* ------------------------------------------------------------- ReconnectButton
\* if self.coordinator._device:
PressChk(p) ==
  /\ At(p, "b_chk")
  /\ Step(p, IF device # None THEN "lock" ELSE "d_chk")
  /\ hist' = [hist EXCEPT ![p].sess = device]
  /\ UNCHANGED <<coord, env, op, arg, data, ip, result, trace>>

\* await self.coordinator.async_request_refresh(): the refresh it schedules
\* is a Refresh call of its own
PressRefresh(p) ==
  /\ At(p, "b_refresh")
  /\ Log(p, <<"request_refresh">>)
  /\ Ret(p, "returned", "None")
  /\ UNCHANGED <<coord, env, op, arg, data, ip, result, hist>>

\* ------------------------------------------------------------- async_install_apk
\* self._device.push(apk_path, remote_path)
InstallPush(p) ==
  /\ At(p, "in_push")
  /\ Log(p, <<"push">>)
  /\ IF ShellOk(device) THEN Step(p, "in_pm") ELSE Ret(p, "returned", "False")
  /\ UNCHANGED <<coord, env, op, arg, data, ip, result, hist>>

\* result = self._device.shell("pm install -r ...")
InstallPm(p) ==
  /\ At(p, "in_pm")
  /\ Log(p, <<"pm">>)
  /\ IF ShellOk(device)
       THEN \E r \in {"Success", "Failure", ""} :
              /\ result' = [result EXCEPT ![p] = r]
              /\ Step(p, "in_rm")
       ELSE /\ UNCHANGED result
            /\ Ret(p, "returned", "False")
  /\ UNCHANGED <<coord, env, op, arg, data, ip, hist>>

\* self._device.shell("rm ..."); return "Success" in result if result else False
InstallRm(p) ==
  /\ At(p, "in_rm")
  /\ Log(p, <<"rm">>)
  /\ Ret(p, "returned",
         IF ShellOk(device) /\ result[p] = "Success" THEN "True" ELSE "False")
  /\ UNCHANGED <<coord, env, op, arg, data, ip, result, hist>>

\* ------------------------------------------------------------- specification
Environment == DeviceDown \/ DeviceUp \/ LinkDrop

Disconnect(p) == DiscChk(p) \/ DiscClose(p) \/ DiscNone(p)

Connect(p) ==
  \/ ConnectEnter(p) \/ Setup(p) \/ ConnChk1(p) \/ ConnChk2(p)
  \/ ConnNew(p) \/ ConnConnect(p) \/ ConnRet(p)

Refresh(p) ==
  \/ UpdateCheck(p) \/ WifiProbeFromCache(p) \/ GetDataChk1(p) \/ GetDataChk2(p)
  \/ GetDataProbe(p) \/ GetSerial(p) \/ GetWlan(p) \/ GetEth(p) \/ GetPort(p)

Enable(p) ==
  \/ EnableWlan(p) \/ EnableEth(p) \/ EnableTcpip(p) \/ EnableFallback(p)
  \/ EnableCache(p)

Install(p) == InstallPush(p) \/ InstallPm(p) \/ InstallRm(p)

Next ==
  \/ Environment
  \/ \E p \in Procs :
       \/ \E o \in OpsOf(p) \ {"Enable"} : Start(p, o, 0)
       \/ \E port \in Ports : "Enable" \in OpsOf(p) /\ Start(p, "Enable", port)
       \/ Acquire(p) \/ Return(p)
       \/ OpChk1(p) \/ OpChk2(p)
       \/ Connect(p) \/ Refresh(p) \/ Enable(p) \/ RunShell(p) \/ Install(p)
       \/ Disconnect(p)

Spec == Init /\ [][Next]_vars

\* ------------------------------------------------------------- type invariant
TypeOK ==
  /\ device \in Sessions \cup {None}
  /\ status \in [Sessions -> {"free", "new", "open", "closed"}]
  /\ stale \subseteq {device} \cap OpenSessions
  /\ \A s \in Sessions : status[s] \in {"new", "closed"} => device = s
  /\ lock \in Procs \cup {"none"}
  /\ last_wifi_ip \in IPs \cup {NoIp}
  /\ last_wifi_port \in Ports
  /\ tcp_port \in Ports

\* Refresh is the only operation called (the scheduler polling on its own)
NextRefresh ==
  \/ Environment
  \/ \E p \in Procs :
       \/ Start(p, "Refresh", 0)
       \/ Acquire(p) \/ Return(p)
       \/ ConnectEnter(p) \/ Setup(p) \/ ConnChk1(p) \/ ConnNew(p)
       \/ ConnConnect(p) \/ ConnRet(p)
       \/ Refresh(p)

SpecRefresh == Init /\ [][NextRefresh]_vars

\* a step of some Refresh call
RefreshStep ==
  \E p \in Procs :
    \/ Start(p, "Refresh", 0)
    \/ Acquire(p) \/ Return(p)
    \/ ConnectEnter(p) \/ Setup(p) \/ ConnChk1(p) \/ ConnNew(p)
    \/ ConnConnect(p) \/ ConnRet(p)
    \/ Refresh(p)

\* the scheduler keeps polling and the event loop keeps running the call
\* that can go on
LiveRefresh == SpecRefresh /\ WF_vars(RefreshStep)

Press(p) == PressChk(p) \/ PressRefresh(p)

\* the Reconnect button is pressed while the scheduler polls and the entry
\* may be unloaded
NextPress ==
  \/ Environment
  \/ \E p \in Procs :
       \/ \E o \in PressOpsOf(p) : Start(p, o, 0)
       \/ Acquire(p) \/ Return(p)
       \/ OpChk1(p) \/ OpChk2(p)
       \/ Connect(p) \/ Refresh(p) \/ RunShell(p) \/ Press(p)
       \/ Disconnect(p)

SpecPress == Init /\ [][NextPress]_vars

\* a step of the call caller p is in; _connect is entered with no device
\* here (only the lock holder builds one), so it goes straight to building it
CallStep(p) ==
  \/ Acquire(p) \/ Return(p)
  \/ OpChk1(p) \/ OpChk2(p)
  \/ ConnectEnter(p) \/ Setup(p) \/ ConnChk1(p) \/ ConnNew(p)
  \/ ConnConnect(p) \/ ConnRet(p)
  \/ Refresh(p) \/ Enable(p) \/ RunShell(p) \/ Install(p)
  \/ Press(p) \/ Disconnect(p)

\* the buttons and the service calls contend for the lock with the polling,
\* on a device that is in reach or out of reach for good and whose links die
NextLock ==
  \/ LinkDrop
  \/ \E p \in Procs :
       \/ \E o \in LockOpsOf(p) :
            Start(p, o, IF o = "EnablePress" THEN DEFAULT_ADB_PORT ELSE 0)
       \/ CallStep(p)

\* a coordinator configured for USB; the transport only selects the device
\* class built in _connect
InitUsb == Init /\ connection_type = "usb"

SpecLock == InitUsb /\ [][NextLock]_vars

\* the event loop runs every call that can go on, and asyncio.Lock wakes its
\* waiters in arrival order
FairLock ==
  /\ SpecLock
  /\ \A p \in Procs : WF_vars(CallStep(p)) /\ SF_vars(Acquire(p))

\* ------------------------------------------------------------- properties
Has(seq, e) == \E i \in DOMAIN seq : seq[i] = e

Count(seq, S) == Cardinality({i \in DOMAIN seq : seq[i] \in S})

\* caller p has just finished operation o
Done(p, o) == pc[p] = "done" /\ op[p] = o

\* C1: the number of sessions opened and not yet closed is at most 1 in every
\* reachable state, whatever the sequence of Refresh calls and their connect
\* and probe outcomes.
C1_SingleSession == Cardinality(OpenSessions) <= 1

\* caller p is inside the session-touching section of its operation: under
\* the lock for the four locked operations, closing or discarding the session
\* for Disconnect
InSection(p) ==
  IF op[p] = "Disconnect" THEN pc[p] \in {"d_close", "d_none"}
  ELSE pc[p] \notin {"idle", "lock", "done"}

\* C2: no two of Refresh, EnableWirelessAdb, RunCommand, InstallPackage and
\* Disconnect are inside their session-touching section at the same time.
C2_MutualExclusion ==
  \A p, q \in Procs : p # q => ~(InSection(p) /\ InSection(q))

\* C3: a Refresh whose probe of the held session failed has made exactly one
\* Close and at most one Connect attempt by the time it returns.
C3_ProbeFailClosesOnce ==
  \A p \in Procs :
    (Done(p, "Refresh") /\ Has(trace[p], "probe_fail")) =>
      /\ Count(trace[p], {"close"}) = 1
      /\ Count(trace[p], {"new"}) <= 1

\* C4: a Refresh whose probe failed while the device was reachable returns a
\* snapshot with connected = true (it reconnects within the same call).
C4_StaleRecoveredInOneRefresh ==
  \A p \in Procs :
    (Done(p, "Refresh") /\ Has(trace[p], "probe_fail") /\ hist[p].up) =>
      (outcome[p] = "returned" /\ data[p].connected)

\* a Refresh of p that found a session held and whose probe of it succeeded
ProbedOk(p) ==
  /\ op[p] = "Refresh"
  /\ hist[p].sess0 # None
  /\ Has(trace[p], "probe_ok")

\* C5: when a session is held and its probe succeeds, Refresh makes no Connect
\* attempt and no Close, probes the session it found, and no step of that
\* Refresh replaces or drops the held session.
C5_ProbeOkReuses ==
  [][\A p \in Procs :
       (ProbedOk(p)' /\ pc[p] # "done" /\ pc'[p] # pc[p]) =>
         /\ device' = device
         /\ status' = status
         /\ hist'[p].sess = hist'[p].sess0
         /\ Count(trace'[p], {"new", "connect_ok", "connect_fail",
                              "connect_err", "close"}) = 0]_vars

C5_Witness ==
  \E p \in Procs :
    /\ Done(p, "Refresh") /\ ProbedOk(p)
    /\ outcome[p] = "returned" /\ data[p].connected
    /\ device = hist[p].sess0

\* the device commands of _get_data
Commands == {"probe_ok", "probe_fail", "serial", "wlan0", "eth0"}

\* C6: once Disconnect has completed no session is held, and a Refresh that
\* comes next finds none, builds a fresh device and calls connect on it before
\* any device command, and issues commands only after that connect succeeded.
C6_RefreshAfterDisconnect ==
  /\ disconnected => device = None
  /\ \A p \in Procs :
       (op[p] = "Refresh" /\ hist[p].afterDisc) =>
         /\ hist[p].sess0 = None
         /\ trace[p] # <<>> => trace[p][1] = "new"
         /\ pc[p] = "done" => Has(trace[p], "new")
         /\ \A i \in DOMAIN trace[p] :
              trace[p][i] \in Commands =>
                \E j \in 1..(i - 1) : trace[p][j] = "connect_ok"

C6_Witness ==
  \E p \in Procs :
    /\ Done(p, "Refresh") /\ hist[p].afterDisc
    /\ signer
    /\ Has(trace[p], "connect_ok") /\ data[p].connected

\* a Refresh of p has finished after _async_connect returned False
ConnectFailed(p) == Done(p, "Refresh") /\ Has(trace[p], "conn_false")

\* C7: a Refresh with no session held, a failing Connect and no cached WiFi
\* endpoint raises UpdateFailed.
C7_NoCacheRaisesUpdateFailed ==
  \A p \in Procs :
    (ConnectFailed(p) /\ hist[p].sess0 = None /\ hist[p].ip0 = NoIp) =>
      outcome[p] = "UpdateFailed"

\* C8: with a TCP transport a Refresh whose connect fails returns no degraded
\* snapshot: it raises UpdateFailed.
C8_FallbackOnlyOnUsb ==
  \A p \in Procs :
    (ConnectFailed(p) /\ connection_type # "usb") =>
      outcome[p] = "UpdateFailed"

\* the cached endpoint was present when p took the lock
CachePresent(p) == hist[p].ip0 # NoIp /\ hist[p].port0 # 0

\* C9: a Refresh whose Connect fails while a cached endpoint (ip, port) is
\* present returns a snapshot with connected = false, wifiIp = ip,
\* adbPort = port and wifiAdbEnabled = the outcome of the raw reachability
\* check, without UpdateFailed, and leaves the cached endpoint unchanged.
C9_DegradedSnapshot ==
  \A p \in Procs :
    (ConnectFailed(p) /\ CachePresent(p)) =>
      /\ outcome[p] = "returned"
      /\ Count(trace[p], {"sock_ok", "sock_fail"}) = 1
      /\ data[p] = [connected |-> FALSE, serial |-> "None",
                    wifi_ip |-> hist[p].ip0,
                    wifi_adb_enabled |-> Has(trace[p], "sock_ok"),
                    adb_port |-> hist[p].port0]
      /\ last_wifi_ip = hist[p].ip0
      /\ last_wifi_port = hist[p].port0

C9_Witness ==
  \E p \in Procs :
    /\ ConnectFailed(p) /\ CachePresent(p)
    /\ hist[p].port0 # DEFAULT_ADB_PORT
    /\ data[p].wifi_adb_enabled

\* C10: in every EnableWirelessAdb call the IP capture (wlan0) is issued
\* before the tcpip service call, the service call is issued once, and the
\* shell fallback is issued only right after a failed service call.
C10_CaptureBeforeSwitch ==
  \A p \in Procs :
    op[p] = "Enable" =>
      /\ Count(trace[p], {"tcpip_ok", "tcpip_fail"}) <= 1
      /\ \A i \in DOMAIN trace[p] :
           /\ trace[p][i] \in {"tcpip_ok", "tcpip_fail"} =>
                \E j \in 1..(i - 1) : trace[p][j] = "wlan0"
           /\ trace[p][i] = "eth0" => (i > 1 /\ trace[p][i - 1] = "wlan0")
           /\ trace[p][i] = "shellfb" =>
                (i > 1 /\ trace[p][i - 1] = "tcpip_fail")

C10_Witness ==
  \E p \in Procs :
    /\ Done(p, "Enable")
    /\ Has(trace[p], "wlan0") /\ Has(trace[p], "tcpip_fail")
    /\ Has(trace[p], "shellfb")
    /\ ret[p] \in IPs

\* an Enable call of p has finished with a captured address
Captured(p) == Done(p, "Enable") /\ ip[p] # NoIp

\* C11: an EnableWirelessAdb(port) call whose IP capture returned ip returns ip
\* and leaves the cached endpoint at (ip, port), whether the tcpip service call
\* succeeded, the shell fallback ran and succeeded, or both failed.
C11_EnableCachesCapturedIp ==
  \A p \in Procs :
    Captured(p) =>
      /\ outcome[p] = "returned"
      /\ ret[p] = ip[p]
      /\ last_wifi_ip = ip[p]
      /\ last_wifi_port = arg[p]

C11_Witness ==
  \E p \in Procs :
    /\ Captured(p)
    /\ Has(trace[p], "tcpip_fail") /\ Has(trace[p], "shellfb")
    /\ Has(trace[p], "err")
    /\ arg[p] # DEFAULT_ADB_PORT
    /\ hist[p].ip0 \notin {NoIp, ip[p]}

\* the step changes the cached address by observing r on the device
Observes(p) ==
  \/ /\ op[p] = "Refresh" /\ pc[p] \in {"g_wlan", "g_eth"}
     /\ pc'[p] = "g_port" /\ data'[p].wifi_ip = last_wifi_ip'
  \/ /\ op[p] = "Enable" /\ pc[p] = "en_cache"
     /\ ip[p] = last_wifi_ip'

\* C12: once lastWifiIp is set it stays set; it changes only in a step of
\* Refresh or EnableWirelessAdb that stores an address just read from the
\* device, never on a failed connect, probe, reachability check or property
\* read, and never in Disconnect.
C12_CachePersists ==
  [][/\ last_wifi_ip # NoIp => last_wifi_ip' # NoIp
     /\ last_wifi_ip' # last_wifi_ip =>
          /\ last_wifi_ip' \in IPs
          /\ \E p \in Procs : Observes(p)]_vars

C12_Witness ==
  /\ last_wifi_ip # NoIp
  /\ device = None
  /\ \E p \in Procs : Done(p, "Refresh") /\ Has(trace[p], "probe_fail")

\* C13: every InstallPackage call that pushed the file issues the cleanup
\* command afterwards, whatever the install command did (also when it failed)
C13_CleanupAlwaysIssued ==
  \A p \in Procs :
    Done(p, "Install") /\ Has(trace[p], "pm") => Has(trace[p], "rm")

\* C14: the result depends only on the install output: with the file pushed
\* and the success marker in the output, InstallPackage returns true even
\* when the cleanup command fails
C14_CleanupFailureNotSurfaced ==
  \A p \in Procs :
    Done(p, "Install") /\ result[p] = "Success" => ret[p] = "True"

\* C15: RunCommand never raises to its caller, whatever the session state,
\* the connect outcome, the shell outcome and a concurrent Disconnect do; it
\* returns the output on success and null on failure
C15_RunCommandNeverRaises ==
  \A p \in Procs :
    Done(p, "Run") => outcome[p] = "returned" /\ ret[p] \in {"out", "None"}

\* the button's test command is about to run on the session that
\* async_run_command found held and available, and the session answers
HealthyProbe(p) ==
  /\ op[p] = "Reconnect" /\ pc[p] = "run_sh"
  /\ ShellOk(device)
  /\ hist[p].sess0 = device /\ ~Has(trace[p], "new")

\* C16: Reconnect never closes or discards a healthy session: when the held
\* session answers the probe, the press ends there with no Close, no
\* Disconnect, no Connect and no refresh request, and the same session is held
C16_HealthyNotReconnected ==
  [][\A p \in Procs :
       HealthyProbe(p) /\ pc'[p] # pc[p] =>
         /\ pc'[p] = "done" /\ outcome'[p] = "returned"
         /\ device' = device /\ status' = status /\ stale' = stale
         /\ trace'[p] = <<"run">>]_vars

C16_Witness ==
  \E p \in Procs :
    /\ Done(p, "Reconnect") /\ trace[p] = <<"run">>
    /\ hist[p].sess = device /\ hist[p].sess0 = device
    /\ ShellOk(device)

\* the button's test command ran on a held session and failed
ProbeFailed(p) ==
  /\ Done(p, "Reconnect")
  /\ \E i \in DOMAIN trace[p] :
       i > 1 /\ trace[p][i] = "err" /\ trace[p][i - 1] = "run"

\* C17: when a session is held and Reconnect's probe fails, Reconnect
\* disconnects (closes and discards the session) and then requests a refresh
C17_FailedProbeDisconnects ==
  \A p \in Procs :
    ProbeFailed(p) =>
      /\ Has(trace[p], "close") \/ hist[p].sess0 = None
      /\ Has(trace[p], "request_refresh")

\* caller p is inside async_disconnect
InDisconnect(p) == pc[p] \in {"d_chk", "d_close", "d_none"}

\* C18: Disconnect is idempotent: it closes the held session once and leaves
\* no session held; a Disconnect that follows a Disconnect with no operation
\* in between issues no Close and leaves session and cached endpoint as they
\* are; Disconnect never raises, also when Close fails
C18_DisconnectIdempotent ==
  [][\A p \in Procs :
       InDisconnect(p) /\ pc'[p] # pc[p] =>
         /\ outcome'[p] # "raised"
         /\ Count(trace'[p], {"close"}) <= 1
         /\ pc[p] = "d_close" /\ device # None =>
              status'[device] = "closed" /\ Has(trace'[p], "close")
         /\ ~InDisconnect(p)' => device' = None /\ disconnected'
         /\ pc[p] = "d_chk" /\ disconnected =>
              /\ ~InDisconnect(p)' /\ trace'[p] = trace[p]
              /\ coord' = coord]_vars

C18_Witness ==
  \E p \in Procs :
    /\ Done(p, "Disconnect") /\ hist[p].afterDisc
    /\ trace[p] = <<>> /\ outcome[p] = "returned"
    /\ last_wifi_ip # NoIp /\ signer

\* a Refresh of p has finished with a connected snapshot
Connected(p) == Done(p, "Refresh") /\ data[p].connected

Failed(seq, e) ==
  \E i \in DOMAIN seq : i > 1 /\ seq[i] = "err" /\ seq[i - 1] = e

\* caller p is in the field reads of _get_data, after the quick test passed
ReadingFields(p) ==
  op[p] = "Refresh" /\ pc[p] \in {"g_serial", "g_wlan", "g_eth", "g_port"}

\* C20: per-field failures never abort a connected Refresh: after the probe
\* succeeded a failed serial read leaves the configured serial, a failed
\* address read leaves wifiIp null, a failed reachability check leaves
\* wifiAdbEnabled false, and Refresh still returns a connected snapshot,
\* raises no UpdateFailed and keeps the session
C20_FieldFailuresTolerated ==
  [][\A p \in Procs :
       ReadingFields(p) /\ pc'[p] # pc[p] =>
         /\ outcome'[p] \in {"pending", "returned"}
         /\ data'[p].connected
         /\ device' = device /\ status' = status
         /\ Failed(trace'[p], "serial") => data'[p].serial = CfgSerial
         /\ Failed(trace'[p], "wlan0") \/ Failed(trace'[p], "eth0") =>
              data'[p].wifi_ip = NoIp
         /\ pc[p] = "g_port" =>
              /\ pc'[p] = "done" /\ outcome'[p] = "returned"
              /\ ret'[p] = "snapshot"
              /\ ~Has(trace'[p], "sock_ok") => ~data'[p].wifi_adb_enabled]_vars

C20_Witness ==
  \E p \in Procs :
    /\ Connected(p) /\ outcome[p] = "returned"
    /\ Failed(trace[p], "serial") /\ Failed(trace[p], "wlan0")
    /\ data[p].serial = CfgSerial /\ data[p].wifi_ip = NoIp
    /\ device = hist[p].sess /\ device # None

\* the first device command of RunCommand, EnableWirelessAdb, InstallPackage
FirstCommands == {"run", "wlan0", "push"}

\* an operation other than Refresh has finished after it found a session
\* held and issued its first command
RanOnHeld(p) ==
  /\ pc[p] = "done" /\ op[p] \in {"Run", "Enable", "Install"}
  /\ hist[p].sess0 \notin {-1, None}
  /\ \E c \in FirstCommands : Has(trace[p], c)

\* C21: RunCommand, EnableWirelessAdb and InstallPackage, when a session is
\* held, probe it before their first command, and after a failed probe close
\* the stale session and reconnect instead of running on it
C21_OperationsProbeFirst ==
  \A p \in Procs :
    RanOnHeld(p) =>
      /\ Has(trace[p], "probe_ok") \/ Has(trace[p], "probe_fail")
      /\ Has(trace[p], "probe_fail") => Has(trace[p], "close")

\* a Refresh of p has returned a snapshot
Snapshot(p) == Done(p, "Refresh") /\ outcome[p] = "returned"

\* C22: in every snapshot, connected or degraded, wifiAdbEnabled is true only
\* if a reachability check of (snapshot.wifiIp, snapshot.adbPort) succeeded
\* during that Refresh; it is false whenever wifiIp is null
C22_EnabledIsCorroborated ==
  \A p \in Procs :
    Snapshot(p) /\ data[p].wifi_adb_enabled =>
      /\ data[p].wifi_ip # NoIp
      /\ Has(trace[p], "sock_ok")
      /\ hist[p].sockIp = data[p].wifi_ip
      /\ hist[p].sockPort = data[p].adb_port

C22_Witness ==
  \E p \in Procs :
    /\ Snapshot(p) /\ ~data[p].connected
    /\ data[p].wifi_adb_enabled
    /\ data[p].adb_port = 5556 /\ data[p].wifi_ip = "10.0.0.5"

\* C23: credential provisioning is one-time: with concurrent first calls the
\* key setup runs at most once, before the first connect attempt, and the
\* signer once set is never replaced
C23_SignerProvisionedOnce ==
  [][/\ signer => signer'
     /\ Cardinality({p \in Procs : pc[p] = "a_setup"}) <= 1
     /\ \A p \in Procs :
          /\ pc[p] = "a_setup" /\ pc'[p] # "a_setup" =>
               ~signer /\ signer' /\ lock = p
          /\ pc[p] = "c_conn" /\ pc'[p] # "c_conn" => signer
          /\ signer' # signer => pc[p] = "a_setup" \/ lock # p]_vars

C23_Witness ==
  \E p, q \in Procs :
    /\ p # q /\ signer
    /\ lock = p /\ pc[p] = "c_chk1" /\ pc[q] = "lock"
    /\ \A s \in Sessions : status[s] = "free"

\* C24: a snapshot with connected = true means the probe of the held session
\* succeeded during that Refresh and the same open session is still held
\* when Refresh returns, in every interleaving including Disconnect
C24_ConnectedMeansHeld ==
  \A p \in Procs :
    Connected(p) =>
      /\ Has(trace[p], "probe_ok")
      /\ device = hist[p].sess /\ Available(device)

\* an Enable call of p returns with no address captured
ReturnsUncaptured(p) ==
  /\ op[p] = "Enable" /\ pc[p] = "en_cache" /\ pc'[p] = "done"
  /\ ip[p] = NoIp

\* C27: an EnableWirelessAdb call that captured no address still issues the
\* transport switch (and the shell fallback when that fails), returns null
\* and leaves the cached endpoint unchanged; lastWifiPort is changed only by
\* an EnableWirelessAdb call that captured an address, never by Refresh
C27_UncapturedLeavesCache ==
  [][/\ \A p \in Procs :
          ReturnsUncaptured(p) =>
            /\ outcome'[p] = "returned" /\ ret'[p] = NoIp
            /\ Has(trace[p], "tcpip_ok") \/ Has(trace[p], "tcpip_fail")
            /\ Has(trace[p], "tcpip_fail") => Has(trace[p], "shellfb")
            /\ last_wifi_ip' = hist[p].ip0 /\ last_wifi_port' = hist[p].port0
     /\ last_wifi_port' # last_wifi_port =>
          \E p \in Procs :
            /\ op[p] = "Enable" /\ pc[p] = "en_cache" /\ ip[p] # NoIp
            /\ last_wifi_port' = arg[p]]_vars

C27_Witness ==
  \E p \in Procs :
    /\ Done(p, "Enable") /\ ip[p] = NoIp /\ ret[p] = NoIp
    /\ Has(trace[p], "eth0") /\ Has(trace[p], "shellfb")
    /\ arg[p] = 5556 /\ last_wifi_port = DEFAULT_ADB_PORT
    /\ tcp_port = 5556

\* a new device object can be built whenever a call is about to build one
CanBuild == \A p \in Procs : pc[p] = "c_new" => FreeIds # {}

\* from some point on the device is reachable and no link dies any more
StaysReachable ==
  /\ <>[]reachable
  /\ <>[][~LinkDrop]_vars
  /\ <>[]CanBuild

\* C25: if from some point on the device is reachable and Refresh keeps being
\* invoked, then from whatever state earlier failures left (no session, or a
\* stale one) some later Refresh returns connected = true, and so does every
\* Refresh after it
C25_EventualRecovery ==
  StaysReachable =>
    /\ []<>(\E p \in Procs : Connected(p))
    /\ <>[](\A p \in Procs : Done(p, "Refresh") => data[p].connected)

C25_Witness ==
  \E p \in Procs :
    /\ Connected(p) /\ ShellOk(device)
    /\ \E s \in OpenSessions : s # device

\* positions of a caller outside every "async with self._lock" block
OutsideLock ==
  {"idle", "done", "lock", "b_chk", "b_refresh", "d_chk", "d_close", "d_none"}

\* a caller that has returned, waits for the lock or is in a button's own
\* code or in async_disconnect does not hold the lock
LockReleased == \A p \in Procs : pc[p] \in OutsideLock => lock # p

\* C26: the lock is released on every exit path and never requested by its
\* holder: it is free of a caller whenever that caller's operation has
\* returned, whatever the outcome, the button actions never wait for the lock
\* while holding it, and every caller waiting for the lock eventually gets it
C26_LockReleasedAndFair ==
  /\ []LockReleased
  /\ []CanBuild => \A p \in Procs : (pc[p] = "lock") ~> (lock = p)

C26_Witness ==
  \E p, q \in Procs :
    /\ op[p] = "EnablePress" /\ pc[p] = "b_refresh"
    /\ lock = q /\ q # p
    /\ last_wifi_ip # NoIp
====
